---- MODULE Spec2Model ----
(***************************************************************************)
(* Model of the two key-generation scripts of AutoTradePro-Crypto:         *)
(*   backend/generate_ed25519_seed.py  and  backend/generate_keys.py.      *)
(*                                                                         *)
(* Each invocation is one Python process running one of the scripts.  Its  *)
(* state is its module namespace (the names bound so far), the position    *)
(* in the script, its standard output and its exit status.  The only       *)
(* state invocations share is the operating system's random source and     *)
(* whatever lives outside the processes (environment, files).              *)
(*                                                                         *)
(* Byte strings are sequences over 0..255, text strings are sequences of   *)
(* one-character strings.  Library calls (PyNaCl, base64, print) are       *)
(* modelled by what they compute.                                          *)
(***************************************************************************)
EXTENDS Integers, Sequences, FiniteSets

\* ------------------------------------------------------------------ bounds

\* Number of invocations that may run concurrently.
NumInv == 2

\* Number of distinct values the random source may hand out.
NumSeeds == 2

\* crypto_sign_SEEDBYTES: the size SigningKey.generate() asks the random
\* source for, and the size of an Ed25519 public key.
SeedLen == 32

Invocations == 1..NumInv

SeedScript == "generate_ed25519_seed.py"
KeysScript == "generate_keys.py"
Scripts == {SeedScript, KeysScript}

\* ------------------------------------------------------------ text helpers

\* The standard base64 alphabet as text and as the ASCII codes b64encode emits.
B64Text ==
  << "A","B","C","D","E","F","G","H","I","J","K","L","M",
     "N","O","P","Q","R","S","T","U","V","W","X","Y","Z",
     "a","b","c","d","e","f","g","h","i","j","k","l","m",
     "n","o","p","q","r","s","t","u","v","w","x","y","z",
     "0","1","2","3","4","5","6","7","8","9","+","/" >>

B64Code ==
  [i \in 1..64 |-> IF i <= 26 THEN 64 + i
                   ELSE IF i <= 52 THEN 70 + i
                   ELSE IF i <= 62 THEN i - 5
                   ELSE IF i = 63 THEN 43 ELSE 47]

PadCode == 61

\* ------------------------------------------------------------ base64 module

\* Mutant of EncodeGroup: the unpadded variant, a short last group is emitted
\* without its '='.
EncodeGroup_NoPad(g) ==
  LET b1 == g[1]
      b2 == IF Len(g) >= 2 THEN g[2] ELSE 0
      b3 == IF Len(g) >= 3 THEN g[3] ELSE 0
      full == << B64Code[(b1 \div 4) + 1],
                 B64Code[((b1 % 4) * 16 + (b2 \div 16)) + 1],
                 B64Code[((b2 % 16) * 4 + (b3 \div 64)) + 1],
                 B64Code[(b3 % 64) + 1] >>
  IN SubSeq(full, 1, Len(g) + 1)

\* base64.b64encode of one group of one, two or three bytes.
EncodeGroup(g) ==
  LET b1 == g[1]
      b2 == IF Len(g) >= 2 THEN g[2] ELSE 0
      b3 == IF Len(g) >= 3 THEN g[3] ELSE 0
  IN << B64Code[(b1 \div 4) + 1],
        B64Code[((b1 % 4) * 16 + (b2 \div 16)) + 1],
        IF Len(g) >= 2 THEN B64Code[((b2 % 16) * 4 + (b3 \div 64)) + 1] ELSE PadCode,
        IF Len(g) >= 3 THEN B64Code[(b3 % 64) + 1] ELSE PadCode >>

RECURSIVE b64encode(_)
\* base64.b64encode(bytes) -> bytes: standard alphabet, '=' padding.
b64encode(bytes) ==
  IF Len(bytes) = 0 THEN << >>
  ELSE IF Len(bytes) <= 3 THEN EncodeGroup(bytes)
  ELSE EncodeGroup(SubSeq(bytes, 1, 3)) \o b64encode(SubSeq(bytes, 4, Len(bytes)))

\* The position in the alphabet of each base64 ASCII code and character.
CodeIndex == [c \in {B64Code[i] : i \in 1..64} |-> CHOOSE i \in 1..64 : B64Code[i] = c]
TextIndex == [c \in {B64Text[i] : i \in 1..64} |-> CHOOSE i \in 1..64 : B64Text[i] = c]

\* The sextet a base64 ASCII code stands for.
Sextet(c) == CodeIndex[c] - 1

\* base64.b64decode of one group of four codes.
DecodeGroup(g) ==
  LET v1 == Sextet(g[1])
      v2 == Sextet(g[2])
  IN IF g[3] = PadCode
       THEN << v1 * 4 + (v2 \div 16) >>
       ELSE LET v3 == Sextet(g[3])
            IN IF g[4] = PadCode
                 THEN << v1 * 4 + (v2 \div 16), (v2 % 16) * 16 + (v3 \div 4) >>
                 ELSE << v1 * 4 + (v2 \div 16),
                         (v2 % 16) * 16 + (v3 \div 4),
                         (v3 % 4) * 64 + Sextet(g[4]) >>

RECURSIVE b64decode(_)
\* base64.b64decode(bytes) -> bytes, on input whose length is a multiple of 4.
b64decode(codes) ==
  IF Len(codes) < 4 THEN << >>
  ELSE DecodeGroup(SubSeq(codes, 1, 4)) \o b64decode(SubSeq(codes, 5, Len(codes)))

\* bytes.decode(): ASCII codes of the base64 alphabet to text.
BytesDecode(codes) ==
  [i \in 1..Len(codes) |->
     IF codes[i] = PadCode THEN "="
     ELSE B64Text[CodeIndex[codes[i]]]]

\* str.encode(): text over the base64 alphabet back to ASCII codes.
StrEncode(text) ==
  [i \in 1..Len(text) |->
     IF text[i] = "=" THEN PadCode
     ELSE B64Code[TextIndex[text[i]]]]

\* ------------------------------------------------------------- nacl.signing

\* The values the random source can return for a 32-byte request.
SeedOf(k) == [i \in 1..SeedLen |-> (255 * k + (k - 1) * i * 7) % 256]

Seeds == {SeedOf(k) : k \in 1..NumSeeds}

\* The Ed25519 public key of a seed (crypto_sign_seed_keypair): a
\* deterministic function from 32 bytes to 32 bytes.  The curve arithmetic is
\* abstracted to a byte-wise mixing function that is not the identity.
DerivePublicKey(seed) ==
  [i \in 1..SeedLen |-> (seed[i] * 3 + seed[SeedLen + 1 - i] + i) % 256]

\* SigningKey(seed): the object keeps the seed and builds its VerifyKey at
\* construction time.
SigningKey(seed) == [seed |-> seed, verify_key |-> [key |-> DerivePublicKey(seed)]]

\* Mutant of SigningKeyEncode: the 64-byte libsodium secret key (seed followed
\* by public key) instead of the seed.
SigningKeyEncode_SecretKey(sk) == sk.seed \o sk.verify_key.key

\* SigningKey.encode() returns the seed, VerifyKey.encode() the public key.
SigningKeyEncode(sk) == sk.seed
VerifyKeyEncode(vk) == vk.key

\* ------------------------------------------------------------------- state

VARIABLES
  script,       \* invocation -> the script it runs
  pc,           \* invocation -> the statement it executes next
  globals,      \* invocation -> its module namespace: bound name -> value
  stdout,       \* invocation -> the text written to standard output
  exit_status,  \* invocation -> << >> while running, <<code>> once terminated
  raised,       \* invocation -> << >>, or the error that terminated it
  rng_results,  \* invocation -> what the random source answered to each of its
                \* requests: SeedLen bytes, or << >> when it had none to give
  rng_calls,    \* number of requests the random source has received
  environ,      \* the environment variables defined outside the invocations
  files         \* the files present outside the invocations

vars == << script, pc, globals, stdout, exit_status, raised, rng_results, rng_calls,
           environ, files >>

\* State outside the invocations: a machine that has no key configured yet,
\* or one whose environment and .env file already hold an earlier key pair.
OutsideStates ==
  { [environ |-> {}, files |-> {}],
    [environ |-> {"ED25519_PRIVATE_KEY", "ED25519_PUBLIC_KEY"}, files |-> {".env"}] }

\* An empty module namespace.
NoGlobals == [n \in {} |-> << >>]

\* Name binding at module level: name = value.
Bind(g, name, value) ==
  [n \in DOMAIN g \cup {name} |-> IF n = name THEN value ELSE g[n]]

Init ==
  /\ script \in [Invocations -> Scripts]
  /\ pc = [p \in Invocations |-> "signing_key"]
  /\ globals = [p \in Invocations |-> NoGlobals]
  /\ stdout = [p \in Invocations |-> << >>]
  /\ exit_status = [p \in Invocations |-> << >>]
  /\ raised = [p \in Invocations |-> << >>]
  /\ rng_results = [p \in Invocations |-> << >>]
  /\ rng_calls = 0
  /\ \E o \in OutsideStates : environ = o.environ /\ files = o.files

\* ------------------------------------------------------- statement helpers

Running(p, s, at) == script[p] = s /\ exit_status[p] = << >> /\ pc[p] = at

\* Mutant of Assign: one namespace shared by all invocations, the name is
\* bound in every one of them.
Assign_Shared(p, name, value, next) ==
  /\ globals' = [q \in Invocations |-> Bind(globals[q], name, value)]
  /\ pc' = [pc EXCEPT ![p] = next]
  /\ UNCHANGED << script, stdout, exit_status, raised, rng_results, rng_calls,
                  environ, files >>

\* name = value, then on to the next statement.
Assign(p, name, value, next) ==
  /\ globals' = [globals EXCEPT ![p] = Bind(@, name, value)]
  /\ pc' = [pc EXCEPT ![p] = next]
  /\ UNCHANGED << script, stdout, exit_status, raised, rng_results, rng_calls,
                  environ, files >>

\* print(label, value): the arguments joined by one space, then a newline.
JoinArgs(label, value) == label \o << " " >> \o value \o << "\n" >>

PyPrint(p, label, value, next) ==
  /\ stdout' = [stdout EXCEPT ![p] = @ \o JoinArgs(label, value)]
  /\ pc' = [pc EXCEPT ![p] = next]
  /\ UNCHANGED << script, globals, exit_status, raised, rng_results, rng_calls,
                  environ, files >>

\* Mutant of Generate: a failed draw is swallowed and reported as success.
Generate_ExitZero(p, name, next) ==
  /\ rng_calls' = rng_calls + 1
  /\ \/ \E seed \in Seeds :
          /\ rng_results' = [rng_results EXCEPT ![p] = Append(@, seed)]
          /\ globals' = [globals EXCEPT ![p] = Bind(@, name, SigningKey(seed))]
          /\ pc' = [pc EXCEPT ![p] = next]
          /\ UNCHANGED << exit_status, raised >>
     \/ /\ rng_results' = [rng_results EXCEPT ![p] = Append(@, << >>)]
        /\ raised' = [raised EXCEPT ![p] = << "EntropyUnavailable" >>]
        /\ exit_status' = [exit_status EXCEPT ![p] = << 0 >>]
        /\ UNCHANGED << globals, pc >>
  /\ UNCHANGED << script, stdout, environ, files >>

\* Mutant of Generate: a key an earlier invocation generated is reused
\* instead of asking the random source.
Generate_Cached(p, name, next) ==
  /\ \/ /\ rng_calls' = rng_calls + 1
        /\ \E seed \in Seeds :
             /\ rng_results' = [rng_results EXCEPT ![p] = Append(@, seed)]
             /\ globals' = [globals EXCEPT ![p] = Bind(@, name, SigningKey(seed))]
     \/ /\ \E q \in Invocations :
             /\ name \in DOMAIN globals[q]
             /\ globals' = [globals EXCEPT ![p] = Bind(@, name, globals[q][name])]
        /\ UNCHANGED << rng_results, rng_calls >>
  /\ pc' = [pc EXCEPT ![p] = next]
  /\ UNCHANGED << script, stdout, exit_status, raised, environ, files >>

\* Mutant of Generate: a failed draw does not end the invocation, which stays
\* at the statement and asks again.
Generate_Retry(p, name, next) ==
  /\ rng_calls' = rng_calls + 1
  /\ \/ \E seed \in Seeds :
          /\ rng_results' = [rng_results EXCEPT ![p] = Append(@, seed)]
          /\ globals' = [globals EXCEPT ![p] = Bind(@, name, SigningKey(seed))]
          /\ pc' = [pc EXCEPT ![p] = next]
     \/ /\ rng_results' = [rng_results EXCEPT ![p] = Append(@, << >>)]
        /\ UNCHANGED << globals, pc >>
  /\ UNCHANGED << script, stdout, exit_status, raised, environ, files >>

\* SigningKey.generate(): one request of SeedLen bytes to the random source.
\* Either the source answers and the key object is bound to name, or it
\* cannot supply secure random bytes and the process dies there: nothing
\* catches the failure, so the interpreter ends with status 1.  The failure
\* is recorded under the name EntropyUnavailable.
Generate(p, name, next) ==
  /\ rng_calls' = rng_calls + 1
  /\ \/ \E seed \in Seeds :
          /\ rng_results' = [rng_results EXCEPT ![p] = Append(@, seed)]
          /\ globals' = [globals EXCEPT ![p] = Bind(@, name, SigningKey(seed))]
          /\ pc' = [pc EXCEPT ![p] = next]
          /\ UNCHANGED << exit_status, raised >>
     \/ /\ rng_results' = [rng_results EXCEPT ![p] = Append(@, << >>)]
        /\ raised' = [raised EXCEPT ![p] = << "EntropyUnavailable" >>]
        /\ exit_status' = [exit_status EXCEPT ![p] = << 1 >>]
        /\ UNCHANGED << globals, pc >>
  /\ UNCHANGED << script, stdout, environ, files >>

\* Mutant of Exit: the invocation leaves a .env file behind.
Exit_WritesEnvFile(p) ==
  /\ exit_status' = [exit_status EXCEPT ![p] = << 0 >>]
  /\ files' = files \cup {".env"}
  /\ UNCHANGED << script, pc, globals, stdout, raised, rng_results, rng_calls,
                  environ >>

\* The end of the script: the interpreter exits with status 0.
Exit(p) ==
  /\ exit_status' = [exit_status EXCEPT ![p] = << 0 >>]
  /\ UNCHANGED << script, pc, globals, stdout, raised, rng_results, rng_calls,
                  environ, files >>

\* ASCII text of the labels the scripts print.
PRIVATE_KEY == << "E","D","2","5","5","1","9","_","P","R","I","V","A","T","E","_","K","E","Y" >>
PUBLIC_KEY == << "E","D","2","5","5","1","9","_","P","U","B","L","I","C","_","K","E","Y" >>

\* ------------------------------------------------ generate_ed25519_seed.py

\* signing_key = SigningKey.generate()
Seed_Generate(p) ==
  /\ Running(p, SeedScript, "signing_key")
  /\ Generate(p, "signing_key", "verify_key")

\* verify_key = signing_key.verify_key
Seed_VerifyKey(p) ==
  /\ Running(p, SeedScript, "verify_key")
  /\ Assign(p, "verify_key", globals[p]["signing_key"].verify_key, "seed_b64")

\* seed_b64 = base64.b64encode(signing_key.encode()).decode()
Seed_EncodeSeed(p) ==
  /\ Running(p, SeedScript, "seed_b64")
  /\ Assign(p, "seed_b64",
            BytesDecode(b64encode(SigningKeyEncode(globals[p]["signing_key"]))),
            "public_b64")

\* public_b64 = base64.b64encode(verify_key.encode()).decode()
Seed_EncodePublic(p) ==
  /\ Running(p, SeedScript, "public_b64")
  /\ Assign(p, "public_b64",
            BytesDecode(b64encode(VerifyKeyEncode(globals[p]["verify_key"]))),
            "print_private")

\* Mutant of Seed_PrintPrivate: the two print statements in the other order,
\* the public-key line is written where the private-key line belongs.
Seed_PrintPrivate_PublicFirst(p) ==
  /\ Running(p, SeedScript, "print_private")
  /\ PyPrint(p, PUBLIC_KEY \o << " ", "=" >>, globals[p]["public_b64"], "print_public")

\* print("ED25519_PRIVATE_KEY=", seed_b64)
Seed_PrintPrivate(p) ==
  /\ Running(p, SeedScript, "print_private")
  /\ PyPrint(p, PRIVATE_KEY \o << "=" >>, globals[p]["seed_b64"], "print_public")

\* print("ED25519_PUBLIC_KEY =", public_b64)
Seed_PrintPublic(p) ==
  /\ Running(p, SeedScript, "print_public")
  /\ PyPrint(p, PUBLIC_KEY \o << " ", "=" >>, globals[p]["public_b64"], "end")

Seed_Exit(p) ==
  /\ Running(p, SeedScript, "end")
  /\ Exit(p)

\* --------------------------------------------------------- generate_keys.py

\* signing_key = SigningKey.generate()
Keys_Generate(p) ==
  /\ Running(p, KeysScript, "signing_key")
  /\ Generate(p, "signing_key", "verify_key")

\* verify_key  = signing_key.verify_key
Keys_VerifyKey(p) ==
  /\ Running(p, KeysScript, "verify_key")
  /\ Assign(p, "verify_key", globals[p]["signing_key"].verify_key, "private_b64")

\* Mutant of Keys_EncodePrivate: the verify key is encoded in place of the
\* signing key.
Keys_EncodePrivate_OfVerifyKey(p) ==
  /\ Running(p, KeysScript, "private_b64")
  /\ Assign(p, "private_b64",
            BytesDecode(b64encode(VerifyKeyEncode(globals[p]["verify_key"]))),
            "public_b64")

\* private_b64 = base64.b64encode(signing_key.encode()).decode()
Keys_EncodePrivate(p) ==
  /\ Running(p, KeysScript, "private_b64")
  /\ Assign(p, "private_b64",
            BytesDecode(b64encode(SigningKeyEncode(globals[p]["signing_key"]))),
            "public_b64")

\* Mutant of Keys_EncodePublic: the signing key is encoded a second time in
\* place of the verify key.
Keys_EncodePublic_OfSigningKey(p) ==
  /\ Running(p, KeysScript, "public_b64")
  /\ Assign(p, "public_b64",
            BytesDecode(b64encode(SigningKeyEncode(globals[p]["signing_key"]))),
            "print_private")

\* public_b64  = base64.b64encode(verify_key.encode()).decode()
Keys_EncodePublic(p) ==
  /\ Running(p, KeysScript, "public_b64")
  /\ Assign(p, "public_b64",
            BytesDecode(b64encode(VerifyKeyEncode(globals[p]["verify_key"]))),
            "print_private")

\* print("ED25519_PRIVATE_KEY =", private_b64)
Keys_PrintPrivate(p) ==
  /\ Running(p, KeysScript, "print_private")
  /\ PyPrint(p, PRIVATE_KEY \o << " ", "=" >>, globals[p]["private_b64"], "print_public")

\* print("ED25519_PUBLIC_KEY  =", public_b64)
Keys_PrintPublic(p) ==
  /\ Running(p, KeysScript, "print_public")
  /\ PyPrint(p, PUBLIC_KEY \o << " ", " ", "=" >>, globals[p]["public_b64"], "end")

Keys_Exit(p) ==
  /\ Running(p, KeysScript, "end")
  /\ Exit(p)

\* ----------------------------------------------------------- specification

Next ==
  \E p \in Invocations :
    \/ Seed_Generate(p)
    \/ Seed_VerifyKey(p)
    \/ Seed_EncodeSeed(p)
    \/ Seed_EncodePublic(p)
    \/ Seed_PrintPrivate(p)
    \/ Seed_PrintPublic(p)
    \/ Seed_Exit(p)
    \/ Keys_Generate(p)
    \/ Keys_VerifyKey(p)
    \/ Keys_EncodePrivate(p)
    \/ Keys_EncodePublic(p)
    \/ Keys_PrintPrivate(p)
    \/ Keys_PrintPublic(p)
    \/ Keys_Exit(p)

Spec == Init /\ [][Next]_vars

\* ------------------------------------------------- reading the output back

\* The positions of the newlines of a text.
LineEnds(out) == {i \in 1..Len(out) : out[i] = "\n"}

\* The newline-terminated lines of a text, in order.
OutputLines(out) ==
  LET ends == LineEnds(out)
      End(n) == IF n = 0 THEN 0
                ELSE CHOOSE i \in ends : Cardinality({j \in ends : j <= i}) = n
  IN [n \in 1..Cardinality(ends) |-> SubSeq(out, End(n - 1) + 1, End(n) - 1)]

\* A text without its leading and trailing spaces.
Strip(s) ==
  LET ink == {i \in 1..Len(s) : s[i] # " "}
  IN IF ink = {} THEN << >>
     ELSE SubSeq(s, CHOOSE i \in ink : \A j \in 1..(i - 1) : s[j] = " ",
                    CHOOSE i \in ink : \A j \in (i + 1)..Len(s) : s[j] = " ")

\* A line "LABEL = VALUE" read as a reader of the output does: the label is
\* what precedes the first '=', the value what follows it, spaces around
\* the '=' dropped.
FirstEq(line) ==
  CHOOSE i \in 1..Len(line) : line[i] = "=" /\ \A j \in 1..(i - 1) : line[j] # "="

LineLabel(line) == Strip(SubSeq(line, 1, FirstEq(line) - 1))
LineValue(line) == Strip(SubSeq(line, FirstEq(line) + 1, Len(line)))

\* The (label, value) pairs an invocation has emitted so far.
Emitted(p) ==
  LET lines == OutputLines(stdout[p])
  IN [n \in DOMAIN lines |->
        [label |-> LineLabel(lines[n]), value |-> LineValue(lines[n])]]

\* The values emitted under a label.
ValuesOf(p, label) ==
  LET e == Emitted(p)
  IN {e[n].value : n \in {m \in DOMAIN e : e[m].label = label}}

\* The 32-byte string a printed value stands for, and the printed form of bytes.
Decoded(value) == b64decode(StrEncode(value))
Encoded(bytes) == BytesDecode(b64encode(bytes))

Succeeded(p) == exit_status[p] = << 0 >>
Terminated(p) == exit_status[p] # << >>

\* ------------------------------------------------------------------ claims

\* C1: in every run, the value printed on the ED25519_PUBLIC_KEY line is the
\* base64 of the Ed25519 public key derived from the seed whose base64 is
\* printed on the ED25519_PRIVATE_KEY line of the same run.
C1_PublicKeyRederives ==
  \A p \in Invocations :
    \A priv \in ValuesOf(p, PRIVATE_KEY) :
      \A pub \in ValuesOf(p, PUBLIC_KEY) :
        pub = Encoded(DerivePublicKey(Decoded(priv)))

C1_Witness ==
  \E p \in Invocations :
    /\ Succeeded(p)
    /\ ValuesOf(p, PRIVATE_KEY) # {}
    /\ ValuesOf(p, PUBLIC_KEY) # {}

\* C2: whenever an output line has been emitted, the value it carries decodes
\* to a byte string of length exactly 32, for the seed and for the public key.
C2_DecodedLength32 ==
  \A p \in Invocations :
    LET e == Emitted(p)
    IN \A n \in DOMAIN e : Len(Decoded(e[n].value)) = 32

C2_Witness ==
  \E p \in Invocations :
    LET e == Emitted(p)
    IN Len(e) = 2 /\ e[1].label = PRIVATE_KEY /\ e[2].label = PUBLIC_KEY

\* C3: when the random source fails, the invocation ends with the
\* EntropyUnavailable failure and a non-zero status, and it has written
\* nothing to standard output, neither line, at any time.
C3_EntropyFailureNoOutput ==
  \A p \in Invocations :
    (rng_results[p] # << >> /\ rng_results[p][1] = << >>) =>
       /\ raised[p] = << "EntropyUnavailable" >>
       /\ Terminated(p)
       /\ exit_status[p][1] # 0
       /\ stdout[p] = << >>

C3_Witness ==
  \E p, q \in Invocations :
    /\ rng_results[p] = << << >> >>
    /\ Terminated(p)
    /\ Succeeded(q)

\* C4: a successful invocation has written exactly two lines, first the
\* ED25519_PRIVATE_KEY line with the base64 seed, then the ED25519_PUBLIC_KEY
\* line with the base64 public key; at no time is the public line out before
\* the private one, nor either line out twice.
C4_TwoLinesInOrder ==
  \A p \in Invocations :
    LET e == Emitted(p)
        key == globals[p]["signing_key"]
    IN /\ Len(e) <= 2
       /\ stdout[p] # << >> => stdout[p][Len(stdout[p])] = "\n"
       /\ Len(e) >= 1 => e[1] = [label |-> PRIVATE_KEY, value |-> Encoded(key.seed)]
       /\ Len(e) >= 2 => e[2] = [label |-> PUBLIC_KEY, value |-> Encoded(key.verify_key.key)]
       /\ Succeeded(p) => Len(e) = 2

C4_Witness ==
  \E p, q \in Invocations :
    /\ Succeeded(p) /\ script[p] = SeedScript
    /\ Succeeded(q) /\ script[q] = KeysScript

\* The invocations that have asked the random source for bytes, and those
\* whose request it could not serve.
HasDrawn(p) == rng_results[p] # << >>
FailedDraw(p) == HasDrawn(p) /\ rng_results[p][1] = << >>

\* C5: every invocation performs its own draw and the seed it emits is the
\* value of that draw: one request per invocation that got past its first
\* statement, one answer held per invocation, and the key object and the
\* emitted seed of an invocation are built from its own answer.
C5_FreshDrawPerInvocation ==
  /\ rng_calls = Cardinality({p \in Invocations : HasDrawn(p)})
  /\ \A p \in Invocations :
       /\ "signing_key" \in DOMAIN globals[p] =>
             /\ Len(rng_results[p]) = 1
             /\ globals[p]["signing_key"].seed = rng_results[p][1]
       /\ \A priv \in ValuesOf(p, PRIVATE_KEY) :
             /\ Len(rng_results[p]) = 1
             /\ Decoded(priv) = rng_results[p][1]

C5_Witness ==
  \E p, q \in Invocations :
    /\ ValuesOf(p, PRIVATE_KEY) # {}
    /\ ValuesOf(q, PRIVATE_KEY) # {}
    /\ ValuesOf(p, PRIVATE_KEY) # ValuesOf(q, PRIVATE_KEY)

\* C6: base64 round-trips on every value the operation produces: decoding an
\* encoded string gives back the 32 bytes it was made from (the seed and the
\* public key), and re-encoding what an emitted string decodes to gives back
\* the emitted string.
C6_Base64RoundTrip ==
  \A p \in Invocations :
    LET g == globals[p]
        seedName == IF script[p] = SeedScript THEN "seed_b64" ELSE "private_b64"
        e == Emitted(p)
    IN /\ seedName \in DOMAIN g => Decoded(g[seedName]) = g["signing_key"].seed
       /\ "public_b64" \in DOMAIN g => Decoded(g["public_b64"]) = g["verify_key"].key
       /\ \A n \in DOMAIN e : Encoded(Decoded(e[n].value)) = e[n].value

C6_Witness ==
  \E p \in Invocations :
    /\ script[p] = SeedScript
    /\ "public_b64" \in DOMAIN globals[p]
    /\ Len(Emitted(p)) = 2
    /\ Emitted(p)[1].value = globals[p]["seed_b64"]

\* What one invocation owns.
Own(p) == << script[p], pc[p], globals[p], stdout[p], exit_status[p], raised[p],
             rng_results[p] >>

\* The invocation's key material is that of its own draw.
KeysAreOwn(p) ==
  LET g == globals[p]
      own == rng_results[p][1]
  IN IF ~HasDrawn(p) \/ own = << >>
       THEN g = NoGlobals /\ stdout[p] = << >>
       ELSE /\ "signing_key" \in DOMAIN g => g["signing_key"] = SigningKey(own)
            /\ "verify_key" \in DOMAIN g => g["verify_key"].key = DerivePublicKey(own)
            /\ \A priv \in ValuesOf(p, PRIVATE_KEY) : priv = Encoded(own)
            /\ \A pub \in ValuesOf(p, PUBLIC_KEY) : pub = Encoded(DerivePublicKey(own))

\* C7: under every interleaving of the steps of concurrent invocations, each
\* invocation's emitted public key corresponds to the seed that same
\* invocation drew and emitted, and a step of one invocation changes nothing
\* another invocation owns.
C7_ConcurrentIndependent ==
  /\ [](\A p \in Invocations : KeysAreOwn(p))
  /\ [][\E p \in Invocations : \A q \in Invocations \ {p} : Own(q)' = Own(q)]_vars

C7_Witness ==
  \E p, q \in Invocations :
    /\ p # q
    /\ pc[p] = "print_public" /\ pc[q] = "print_public"
    /\ rng_results[p] # rng_results[q]

\* C8: entropy failure is fatal: an invocation asks the random source at most
\* once, and after a failed draw it never asks again, binds no key (no
\* substitute seed), and never reaches the derive, encode or print steps.
C8_FailureFatalNoRetry ==
  /\ [](\A p \in Invocations :
          /\ Len(rng_results[p]) <= 1
          /\ FailedDraw(p) =>
               /\ globals[p] = NoGlobals
               /\ pc[p] = "signing_key"
               /\ Terminated(p))
  /\ [][\A p \in Invocations : FailedDraw(p) => Own(p)' = Own(p)]_vars

C8_Witness ==
  \E p, q \in Invocations :
    /\ FailedDraw(p)
    /\ Succeeded(q)
    /\ rng_calls = 2

\* C9: an invocation leaves everything outside it alone, apart from the
\* random source and its output: no step of any invocation, successful or
\* failing, changes the environment variables or the files.
C9_NoOutsideEffects == [][environ' = environ /\ files' = files]_vars

C9_Witness ==
  \E p, q \in Invocations :
    /\ Succeeded(p)
    /\ raised[q] # << >>
    /\ files # {}
    /\ environ # {}

\* The names of generate_ed25519_seed.py as generate_keys.py spells them.
KeysName(n) == IF n = "seed_b64" THEN "private_b64" ELSE n

\* The number of statements an invocation has executed.
StepsDone(p) ==
  Cardinality(DOMAIN globals[p]) + Cardinality(LineEnds(stdout[p]))
    + (IF Terminated(p) THEN 1 ELSE 0)

\* C10: the two scripts are equivalent up to output spacing: given the same
\* result of the entropy draw, after the same number of steps an invocation
\* of generate_ed25519_seed.py and one of generate_keys.py are at the same
\* statement, hold the same values under the same names (seed_b64 being
\* private_b64), have ended alike, and have emitted the same (label, value)
\* pairs.
C10_ScriptsEquivalent ==
  \A p, q \in Invocations :
    ( /\ script[p] = SeedScript
      /\ script[q] = KeysScript
      /\ rng_results[p] = rng_results[q]
      /\ StepsDone(p) = StepsDone(q) ) =>
        /\ KeysName(pc[p]) = pc[q]
        /\ DOMAIN globals[q] = {KeysName(n) : n \in DOMAIN globals[p]}
        /\ \A n \in DOMAIN globals[p] : globals[p][n] = globals[q][KeysName(n)]
        /\ exit_status[p] = exit_status[q]
        /\ raised[p] = raised[q]
        /\ Emitted(p) = Emitted(q)

C10_Witness ==
  \E p, q \in Invocations :
    /\ script[p] = SeedScript /\ script[q] = KeysScript
    /\ rng_results[p] = rng_results[q]
    /\ Succeeded(p) /\ Succeeded(q)
    /\ Emitted(p) = Emitted(q)
    /\ stdout[p] # stdout[q]

====
